---- MODULE Spec2Model ----
(***************************************************************************)
(* Model of the retrieval-augmented answer pipeline of the textbook        *)
(* chatbot: RAGService.answer_question (api/services/rag_service.py) and   *)
(* the CohereService provider it drives (api/services/cohere_service.py).  *)
(*                                                                         *)
(* Text is a sequence of string tokens.  A question is a sequence of       *)
(* one-character tokens, so that lower-casing, substring matching and      *)
(* slicing are computed on characters as the code computes them.           *)
(* Optional values: None is the empty sequence, Some(x) is <<x>>.          *)
(***************************************************************************)
EXTENDS Integers, Sequences, FiniteSets, TLC

None == <<>>
Some(x) == <<x>>

\* Largest similarity score a search hit carries in the model (scores are 1..MaxScore).
MaxScore == 2

\* answer_question's default top_k, the value the chat endpoint passes.
top_k == 5

----------------------------------------------------------------------------
(* Characters and strings *)

UpperCase ==
    <<"A", "B", "C", "D", "E", "F", "G", "H", "I", "J", "K", "L", "M",
      "N", "O", "P", "Q", "R", "S", "T", "U", "V", "W", "X", "Y", "Z">>

LowerCase ==
    <<"a", "b", "c", "d", "e", "f", "g", "h", "i", "j", "k", "l", "m",
      "n", "o", "p", "q", "r", "s", "t", "u", "v", "w", "x", "y", "z">>

\* str.lower() on one character.
LowerChar(c) ==
    IF \E i \in 1..Len(UpperCase) : UpperCase[i] = c
    THEN LowerCase[CHOOSE i \in 1..Len(UpperCase) : UpperCase[i] = c]
    ELSE c

\* str.lower()
Lower(s) == [i \in 1..Len(s) |-> LowerChar(s[i])]

\* Python's "p in s" on strings: p occurs in s as a contiguous run.
Contains(s, p) ==
    \E i \in 1..(Len(s) - Len(p) + 1) : SubSeq(s, i, i + Len(p) - 1) = p

\* Python's s[:n]
Take(s, n) == SubSeq(s, 1, IF Len(s) < n THEN Len(s) ELSE n)

\* sep.join(parts) for a list of texts.
RECURSIVE Join(_, _)
Join(sep, parts) ==
    IF parts = <<>> THEN <<>>
    ELSE IF Len(parts) = 1 THEN parts[1]
    ELSE parts[1] \o sep \o Join(sep, Tail(parts))

----------------------------------------------------------------------------
(* Inputs *)

\* The questions asked: empty, greetings in mixed case, a technical question
\* that contains the phrase "hi" inside a word, and plain technical questions.
Questions ==
    { <<>>,
      <<"H", "e", "l", "l", "o">>,
      <<"H", "I">>,
      <<"s", "h", "i", "p">>,
      <<"P", "I", "D">> }

SelectedTexts == { None, Some(<<"selected passage">>) }

Histories == { None, Some(<<[role |-> "user", content |-> <<"earlier turn">>]>>) }

ChapterFilters == { None, Some("kinematics") }

\* Points stored in the vector index: id and payload.  Two chunks of one
\* chapter and module, one chunk without module_name, one whose module_name
\* is the string 'unknown'.
Points ==
    { [id |-> 1, payload |-> [chapter_slug |-> "kinematics", module_name |-> "Robot Kinematics",
                              chunk_index |-> 1, content |-> <<"Kinematics is the study of motion.">>]],
      [id |-> 2, payload |-> [chapter_slug |-> "kinematics", module_name |-> "Robot Kinematics",
                              chunk_index |-> 2, content |-> <<"The Jacobian matrix relates velocities.">>]],
      [id |-> 3, payload |-> [chapter_slug |-> "pid-control",
                              chunk_index |-> 1, content |-> <<"PID controllers are feedback controllers.">>]],
      [id |-> 4, payload |-> [chapter_slug |-> "pid-control", module_name |-> "unknown",
                              chunk_index |-> 1, content |-> <<"PID controllers are feedback controllers.">>]] }

Scores == 1..MaxScore

\* Texts of the exceptions collaborators raise.
EmbedErrorText == <<"embedding provider unavailable">>
SearchErrorText == <<"vector search transport error">>
ChatErrorText == <<"chat provider unavailable">>
RemoteErrorText == <<"cohere api error">>
\* str(TypeError) of len(None)
LenNoneErrorText == <<"object of type 'NoneType' has no len()">>

\* Texts the remote chat model replies with; None is a response without text.
RemoteReplies == { Some(<<"remote model reply">>), None }

----------------------------------------------------------------------------
(* CohereService *)

MockEmbedding == [size |-> 1024, component |-> "0.1"]
RemoteEmbedding == [size |-> 1024, component |-> "model"]

\* generate_embedding whose replacement vector has the default dimension of
\* the collection, not that of the embedding model.
generate_embedding_DefaultSize(cl, text) ==
    IF cl = "none"
    THEN { [value |-> [size |-> 768, component |-> "0.1"], caught |-> <<>>] }
    ELSE { [value |-> RemoteEmbedding, caught |-> <<>>],
           [value |-> [size |-> 768, component |-> "0.1"], caught |-> <<RemoteErrorText>>] }

\* CohereService.generate_embedding: the outcomes of one call (it has no
\* raising outcome: the remote failure is caught and replaced by the mock).
generate_embedding(cl, text) ==
    IF cl = "none"
    THEN { [value |-> MockEmbedding, caught |-> <<>>] }
    ELSE { [value |-> RemoteEmbedding, caught |-> <<>>],
           [value |-> MockEmbedding, caught |-> <<RemoteErrorText>>] }


ChatPreamble ==
    <<"You are an AI assistant specialized in robotics and intelligent systems. Answer questions based on the provided context.">>

\* The mock reply of a CohereService without client.
MockChatResponse(query) ==
    <<"I'm your AI assistant. Regarding '">> \o query
        \o <<"', I can tell you that this is a mock response for testing purposes.">>

\* FallbackChatResponse that does not quote the query.
FallbackChatResponse_NoEcho(query) ==
    <<"I'm sorry, I encountered an issue generating a response.">>

\* The reply after a failed remote chat call.
FallbackChatResponse(query) ==
    <<"I'm sorry, I encountered an issue generating a response. The query was about: ">>
        \o Take(query, 100) \o <<"...">>

\* Number of context chunks joined into the chat message.
ContextCap == 3

\* ChatMessage with every chunk joined in, not the first three.
ChatMessage_NoCap(query, context_chunks) ==
    IF context_chunks # <<>>
    THEN query \o <<"\n">> \o <<"\n\nContext:\n">> \o Join(<<"\n">>, context_chunks)
    ELSE query

\* The message of the chat request: the query, then the first chunks.
ChatMessage(query, context_chunks) ==
    IF context_chunks # <<>>
    THEN query \o <<"\n">> \o <<"\n\nContext:\n">>
               \o Join(<<"\n">>, Take(context_chunks, ContextCap))
    ELSE query

\* generate_chat_response with the selected passage appended to the message.
generate_chat_response_WithSelection(cl, query, context_chunks, conversation_history, selected_text) ==
    IF cl = "none"
    THEN { [value |-> Some(MockChatResponse(query)), request |-> None, caught |-> <<>>] }
    ELSE LET message == ChatMessage(query, context_chunks)
                            \o (IF selected_text = None THEN <<>>
                                ELSE <<"\n\nSelected text:\n">> \o selected_text[1])
             request == Some([message |-> message, preamble |-> ChatPreamble])
         IN  { [value |-> r, request |-> request, caught |-> <<>>] : r \in RemoteReplies }
             \cup { [value |-> Some(FallbackChatResponse(query)), request |-> request,
                     caught |-> <<RemoteErrorText>>] }

\* CohereService.generate_chat_response: the outcomes of one call.  value is
\* the returned text (None when the remote response has no text), request
\* the message and preamble sent to the remote model (None when no call is
\* made), caught the text of the exception the method absorbed.
generate_chat_response(cl, query, context_chunks, conversation_history, selected_text) ==
    IF cl = "none"
    THEN { [value |-> Some(MockChatResponse(query)), request |-> None, caught |-> <<>>] }
    ELSE LET request == Some([message |-> ChatMessage(query, context_chunks),
                              preamble |-> ChatPreamble])
         IN  { [value |-> r, request |-> request, caught |-> <<>>] : r \in RemoteReplies }
             \cup { [value |-> Some(FallbackChatResponse(query)), request |-> request,
                     caught |-> <<RemoteErrorText>>] }

----------------------------------------------------------------------------
(* VectorService.search as answer_question sees it *)

\* A python value used as a condition: None and '' are false.
Truthy(opt) == opt # None /\ opt[1] # ""

\* The stored points the query filter lets through.
Matching(chapter_slug) ==
    IF Truthy(chapter_slug)
    THEN { p \in Points : p.payload.chapter_slug = chapter_slug[1] }
    ELSE Points

\* The formatted hit of a stored point.
Hit(p, score) == [id |-> p.id, score |-> score, payload |-> p.payload]

\* Ranked result lists of at most n distinct points, most similar first.
RECURSIVE RankedLists(_, _)
RankedLists(pts, n) ==
    IF n = 0 THEN { <<>> }
    ELSE LET shorter == RankedLists(pts, n - 1)
             longest == { r \in shorter : Len(r) = n - 1 }
             Next1(r) == { Hit(p, sc) : p \in { q \in pts : \A i \in 1..Len(r) : r[i].id # q.id },
                                        sc \in { x \in Scores : r = <<>> \/ x <= r[Len(r)].score } }
         IN  shorter \cup UNION { { Append(r, h) : h \in Next1(r) } : r \in longest }

\* The lists VectorService.search can return for a query: the empty list
\* stands for an index without matching points and for an absorbed failure.
SearchOutcomes(chapter_slug, limit) == RankedLists(Matching(chapter_slug), limit)

----------------------------------------------------------------------------
(* RAGService.answer_question *)

general_questions ==
    << <<"h", "e", "l", "l", "o">>,
       <<"h", "i">>,
       <<"h", "e", "y">>,
       <<"h", "o", "w", " ", "a", "r", "e", " ", "y", "o", "u">>,
       <<"w", "h", "a", "t", " ", "i", "s", " ", "y", "o", "u", "r", " ", "n", "a", "m", "e">>,
       <<"w", "h", "o", " ", "a", "r", "e", " ", "y", "o", "u">>,
       <<"w", "h", "a", "t", " ", "d", "o", " ", "y", "o", "u", " ", "d", "o">>,
       <<"i", "n", "t", "r", "o", "d", "u", "c", "e", " ", "y", "o", "u", "r", "s", "e", "l", "f">>,
       <<"h", "e", "l", "p">>,
       <<"s", "t", "a", "r", "t">>,
       <<"g", "r", "e", "e", "t", "i", "n", "g", "s">>,
       <<"g", "o", "o", "d", " ", "m", "o", "r", "n", "i", "n", "g">>,
       <<"g", "o", "o", "d", " ", "e", "v", "e", "n", "i", "n", "g">> >>

is_general_question(q) ==
    \E i \in 1..Len(general_questions) : Contains(Lower(q), general_questions[i])

TechnicalDifficultiesText ==
    <<"Hello! I'm your AI assistant. I'm currently experiencing some technical difficulties, but I'm here to help. Could you try rephrasing your question?">>

NoContextText ==
    <<"I'm having trouble finding specific information about your question in the textbook. However, I'm an AI assistant designed to help you learn about robotics. Could you try asking about inverse kinematics, PID controllers, or humanoid locomotion?">>

CatchAllText ==
    <<"I encountered an error while processing your question. Please try again or rephrase your question.">>

\* The dict returned when generate_embedding raised.
EmbeddingFailureResult ==
    [answer |-> Some(TechnicalDifficultiesText), sources |-> <<>>, context_chunks |-> <<>>]

\* NoContextResult without the context_chunks key.
NoContextResult_NoChunks ==
    [answer |-> Some(NoContextText), sources |-> <<>>]

\* The dict returned when the search gave nothing.
NoContextResult ==
    [answer |-> Some(NoContextText), sources |-> <<>>, context_chunks |-> <<>>]

\* CatchAllResult with the exception text put into the answer.
CatchAllResult_LeaksError(e) ==
    [answer |-> Some(<<"I encountered an error: ">> \o e), sources |-> <<>>,
     context_chunks |-> <<>>, error |-> e]

\* The dict returned by the outer exception handler.
CatchAllResult(e) ==
    [answer |-> Some(CatchAllText), sources |-> <<>>, context_chunks |-> <<>>, error |-> e]

\* The dict returned after generation (answer is the value as returned).
NormalResult(answer, sources, context_chunks) ==
    [answer |-> answer, sources |-> sources, context_chunks |-> context_chunks]

\* NoResults with the empty-result check dropped.
NoResults_Never(results) == FALSE

\* "if not search_results"
NoResults(results) == results = <<>>

\* ExtractContext keeping the first three results only.
ExtractContext_Capped(results) ==
    [i \in 1..(IF Len(results) < ContextCap THEN Len(results) ELSE ContextCap)
        |-> results[i].payload.content]

\* The content of every result, in rank order.
ExtractContext(results) == [i \in 1..Len(results) |-> results[i].payload.content]

\* The source descriptor of one result.
SourceInfo(result) ==
    [chapter_slug |-> result.payload.chapter_slug,
     module_name |-> IF "module_name" \in DOMAIN result.payload
                     THEN result.payload.module_name ELSE "unknown",
     score |-> result.score]

\* NotIn comparing chapter and module only, so that one chapter is listed once.
NotIn_IgnoringScore(source_info, sources) ==
    \A i \in 1..Len(sources) :
        \/ sources[i].chapter_slug # source_info.chapter_slug
        \/ sources[i].module_name # source_info.module_name

\* "source_info not in sources"
NotIn(source_info, sources) == \A i \in 1..Len(sources) : sources[i] # source_info

\* The loop over the results that collects the distinct descriptors.
RECURSIVE CollectSources(_, _)
CollectSources(results, sources) ==
    IF results = <<>> THEN sources
    ELSE CollectSources(Tail(results),
                        IF NotIn(SourceInfo(Head(results)), sources)
                        THEN Append(sources, SourceInfo(Head(results)))
                        ELSE sources)

ExtractSources(results) == CollectSources(results, <<>>)

\* GenerationContext with the phrases matched against the question as typed,
\* without lower-casing it.
GenerationContext_CaseSensitive(q, context_chunks) ==
    IF \E i \in 1..Len(general_questions) : Contains(q, general_questions[i])
    THEN <<>> ELSE context_chunks

\* The context list answer_question hands to generate_chat_response.
GenerationContext(q, context_chunks) ==
    IF is_general_question(q) THEN <<>> ELSE context_chunks

----------------------------------------------------------------------------
(* State *)

VARIABLES
    client,                 \* CohereService.client: "none" (no API key) or "live"
    pc,                     \* where the current answer_question call stands
    question,               \* arguments of the current call
    selected_text,
    chapter_slug,
    conversation_history,
    question_embedding,     \* local of answer_question: Some(vector) once embedded
    search_results,         \* local of answer_question: Some(list) once searched
    generation_args,        \* Some(arguments of the generate_chat_response call)
    chat_request,           \* Some(message and preamble sent to the remote model)
    generated,              \* Some(value generate_chat_response returned)
    result,                 \* Some(dict answer_question returned)
    exit,                   \* the return statement the call left through
    caught,                 \* texts of the exceptions caught during the call
    trace                   \* collaborator calls and their completions, in order

\* The state of one answer_question call.
ragVars == <<client, pc, question, selected_text, chapter_slug, conversation_history,
             question_embedding, search_results, generation_args, chat_request,
             generated, result, exit, caught, trace>>

\* The relational store and the chat requests in flight (api/routers/chat.py).
VARIABLES
    chat_sessions,          \* rows of table chat_sessions: [id, user_id]
    session_seq,            \* last value of the SERIAL sequence of chat_sessions.id
    chat_messages,          \* rows of table chat_messages, in insertion order
    req                     \* per request: position, arguments and locals of handle_chat_message

chatVars == <<chat_sessions, session_seq, chat_messages, req>>

\* The vector index (api/services/vector_service.py).
VARIABLES
    index_points,           \* points stored in the collection: [id, vector, payload]
    uuid_count,             \* number of identifiers uuid4() has produced
    upserts,                \* number of batches sent to the backend
    del,                    \* the delete_by_chapter call in progress
    last_call               \* the last completed VectorService call and its outcome

indexVars == <<index_points, uuid_count, upserts, del, last_call>>

\* The collection of the vector index and the process that uses it
\* (api/main.py, api/load_textbook_content.py, api/vercel_api.py).
VARIABLES
    collection,             \* configuration of the collection, None while it does not exist
    proc,                   \* the running process: entry point, position, calls issued
    cc,                     \* the create_collection call in progress
    cc_log                  \* the create_collection calls that have ended

startupVars == <<collection, proc, cc, cc_log>>

\* The connection pool of the process (api/db/connection.py).
VARIABLES
    pool,                   \* the global _pool: None or the pool it holds
    pools_created,          \* number of pools asyncpg.create_pool has made since the last close
    pool_calls              \* per caller: position in get_db_pool and the pool returned

poolVars == <<pool, pools_created, pool_calls>>

\* One call of a CohereService method (api/services/cohere_service.py).
VARIABLES
    co                      \* the call: method, arguments, position and outcome

cohereVars == <<co>>

restVars == <<startupVars, poolVars, cohereVars>>

vars == <<ragVars, chatVars, indexVars, restVars>>

Ev(op, ev) == [op |-> op, ev |-> ev]

\* No chat request has been received.
ChatUnused ==
    /\ chat_sessions = {}
    /\ session_seq = 0
    /\ chat_messages = <<>>
    /\ req = <<>>

\* The vector index is not in use.
IndexUnused ==
    /\ index_points = {}
    /\ uuid_count = 0
    /\ upserts = 0
    /\ del = None
    /\ last_call = None

\* No process has started and no collection call was made.
StartupUnused ==
    /\ collection = None
    /\ proc = None
    /\ cc = None
    /\ cc_log = <<>>

\* No caller has asked for the pool.
PoolUnused ==
    /\ pool = None
    /\ pools_created = 0
    /\ pool_calls = <<>>

\* No CohereService method has been called.
CohereUnused == co = None

\* No answer_question call has been made.
RagIdle ==
    /\ pc = "idle"
    /\ question = <<>>
    /\ selected_text = None
    /\ chapter_slug = None
    /\ conversation_history = None
    /\ question_embedding = None
    /\ search_results = None
    /\ generation_args = None
    /\ chat_request = None
    /\ generated = None
    /\ result = None
    /\ exit = "none"
    /\ caught = <<>>
    /\ trace = <<>>

Init ==
    /\ ChatUnused
    /\ IndexUnused
    /\ StartupUnused
    /\ PoolUnused
    /\ CohereUnused
    /\ client \in {"none", "live"}
    /\ pc = "idle"
    /\ question = <<>>
    /\ selected_text = None
    /\ chapter_slug = None
    /\ conversation_history = None
    /\ question_embedding = None
    /\ search_results = None
    /\ generation_args = None
    /\ chat_request = None
    /\ generated = None
    /\ result = None
    /\ exit = "none"
    /\ caught = <<>>
    /\ trace = <<>>

\* answer_question is entered and runs up to the awaited generate_embedding.
Call(q, sel, ch, hist) ==
    /\ pc = "idle"
    /\ question' = q
    /\ selected_text' = sel
    /\ chapter_slug' = ch
    /\ conversation_history' = hist
    /\ question_embedding' = None
    /\ search_results' = None
    /\ generation_args' = None
    /\ chat_request' = None
    /\ generated' = None
    /\ result' = None
    /\ exit' = "none"
    /\ caught' = <<>>
    /\ trace' = <<Ev("generate_embedding", "call")>>
    /\ pc' = "await_embedding"
    /\ UNCHANGED client

\* The call leaves through a return statement.
Return(branch, value, events, errors) ==
    /\ result' = Some(value)
    /\ exit' = branch
    /\ trace' = trace \o events
    /\ caught' = caught \o errors
    /\ pc' = "returned"

\* generate_embedding returns a vector; answer_question goes on to the
\* awaited search.
EmbeddingReturns ==
    /\ pc = "await_embedding"
    /\ \E o \in generate_embedding(client, question) :
          /\ question_embedding' = Some(o.value)
          /\ caught' = caught \o o.caught
    /\ trace' = trace \o <<Ev("generate_embedding", "return"), Ev("search", "call")>>
    /\ pc' = "await_search"
    /\ UNCHANGED <<client, question, selected_text, chapter_slug, conversation_history,
                   search_results, generation_args, chat_request, generated, result, exit>>

\* EmbeddingRaises with the failed call tried again.
EmbeddingRaises_Retry ==
    /\ pc = "await_embedding"
    /\ caught' = caught \o <<EmbedErrorText>>
    /\ trace' = trace \o <<Ev("generate_embedding", "raise"), Ev("generate_embedding", "call")>>
    /\ UNCHANGED <<client, pc, question, selected_text, chapter_slug, conversation_history,
                   question_embedding, search_results, generation_args, chat_request,
                   generated, result, exit>>

\* EmbeddingRaises with the failure replaced by the mock vector and the
\* pipeline going on to the search.
EmbeddingRaises_FallsThrough ==
    /\ pc = "await_embedding"
    /\ question_embedding' = Some(MockEmbedding)
    /\ caught' = caught \o <<EmbedErrorText>>
    /\ trace' = trace \o <<Ev("generate_embedding", "raise"), Ev("search", "call")>>
    /\ pc' = "await_search"
    /\ UNCHANGED <<client, question, selected_text, chapter_slug, conversation_history,
                   search_results, generation_args, chat_request, generated, result, exit>>

\* generate_embedding raises: the inner handler returns the fixed answer.
EmbeddingRaises ==
    /\ pc = "await_embedding"
    /\ Return("embedding_failure", EmbeddingFailureResult,
              <<Ev("generate_embedding", "raise")>>, <<EmbedErrorText>>)
    /\ UNCHANGED <<client, question, selected_text, chapter_slug, conversation_history,
                   question_embedding, search_results, generation_args, chat_request,
                   generated>>

\* What answer_question does with the list the search step ended with:
\* return the no-context answer, or assemble context and sources and call
\* generate_chat_response.
AfterSearch(results, events, errors) ==
    /\ search_results' = Some(results)
    /\ IF NoResults(results)
       THEN /\ Return("no_context", NoContextResult, events, errors)
            /\ UNCHANGED generation_args
       ELSE /\ generation_args' =
                  Some([query |-> question,
                        context_chunks |-> GenerationContext(question, ExtractContext(results)),
                        conversation_history |-> conversation_history,
                        selected_text |-> selected_text])
            /\ trace' = trace \o events \o <<Ev("generate_chat_response", "call")>>
            /\ caught' = caught \o errors
            /\ pc' = "await_generation"
            /\ UNCHANGED <<result, exit>>
    /\ UNCHANGED <<client, question, selected_text, chapter_slug, conversation_history,
                   question_embedding, chat_request, generated>>

\* search returns a list of hits.
SearchReturns ==
    /\ pc = "await_search"
    /\ \E results \in SearchOutcomes(chapter_slug, top_k) :
          AfterSearch(results, <<Ev("search", "return")>>, <<>>)

\* search raises: the inner handler replaces the results by the empty list.
SearchRaises ==
    /\ pc = "await_search"
    /\ AfterSearch(<<>>, <<Ev("search", "raise")>>, <<SearchErrorText>>)

\* OuterHandler without the handler: the exception leaves answer_question.
OuterHandler_Propagates(e, events, errors) ==
    /\ result' = None
    /\ exit' = "raised"
    /\ trace' = trace \o events
    /\ caught' = caught \o errors
    /\ pc' = "raised"

\* The outer "except Exception" of answer_question: exception e, raised after
\* the given events, becomes the catch-all answer.
OuterHandler(e, events, errors) ==
    Return("catch_all", CatchAllResult(e), events, errors \o <<e>>)

\* What answer_question does with the value generate_chat_response returned:
\* len(answer) raises on None, which the outer handler catches.
AfterGeneration(answer, errors) ==
    IF answer = None
    THEN OuterHandler(LenNoneErrorText, <<Ev("generate_chat_response", "return")>>, errors)
    ELSE Return("normal",
                NormalResult(answer, ExtractSources(search_results[1]),
                             ExtractContext(search_results[1])),
                <<Ev("generate_chat_response", "return")>>, errors)

\* generate_chat_response returns.
GenerationReturns ==
    /\ pc = "await_generation"
    /\ \E o \in generate_chat_response(client, generation_args[1].query,
                                       generation_args[1].context_chunks,
                                       generation_args[1].conversation_history,
                                       generation_args[1].selected_text) :
          /\ chat_request' = o.request
          /\ generated' = Some(o.value)
          /\ AfterGeneration(o.value, o.caught)
    /\ UNCHANGED <<client, question, selected_text, chapter_slug, conversation_history,
                   question_embedding, search_results, generation_args>>

\* generate_chat_response raises: the outer handler returns the catch-all answer.
GenerationRaises ==
    /\ pc = "await_generation"
    /\ OuterHandler(ChatErrorText, <<Ev("generate_chat_response", "raise")>>, <<>>)
    /\ UNCHANGED <<client, question, selected_text, chapter_slug, conversation_history,
                   question_embedding, search_results, generation_args, chat_request,
                   generated>>

\* The caller has taken the result; the service is ready for the next call.
Finish ==
    /\ pc = "returned"
    /\ pc' = "idle"
    /\ question' = <<>>
    /\ selected_text' = None
    /\ chapter_slug' = None
    /\ conversation_history' = None
    /\ question_embedding' = None
    /\ search_results' = None
    /\ generation_args' = None
    /\ chat_request' = None
    /\ generated' = None
    /\ result' = None
    /\ exit' = "none"
    /\ caught' = <<>>
    /\ trace' = <<>>
    /\ UNCHANGED client

Next ==
    \/ /\ \E q \in Questions, sel \in SelectedTexts, ch \in ChapterFilters, hist \in Histories :
             Call(q, sel, ch, hist)
       /\ UNCHANGED <<chatVars, indexVars, restVars>>
    \/ EmbeddingReturns /\ UNCHANGED <<chatVars, indexVars, restVars>>
    \/ EmbeddingRaises /\ UNCHANGED <<chatVars, indexVars, restVars>>
    \/ SearchReturns /\ UNCHANGED <<chatVars, indexVars, restVars>>
    \/ SearchRaises /\ UNCHANGED <<chatVars, indexVars, restVars>>
    \/ GenerationReturns /\ UNCHANGED <<chatVars, indexVars, restVars>>
    \/ GenerationRaises /\ UNCHANGED <<chatVars, indexVars, restVars>>
    \/ Finish /\ UNCHANGED <<chatVars, indexVars, restVars>>

Spec == Init /\ [][Next]_vars

----------------------------------------------------------------------------
(* Properties of answer_question *)

Called(op) == \E i \in 1..Len(trace) : trace[i] = Ev(op, "call")
Raised(op) == \E i \in 1..Len(trace) : trace[i] = Ev(op, "raise")
Returned(op) == \E i \in 1..Len(trace) : trace[i] = Ev(op, "return")

IsList(v) == DOMAIN v = 1..Len(v)

\* C1: answer_question never raises: whatever the question (the empty one
\* included) and whether generate_embedding, search and
\* generate_chat_response return or raise, the call ends by returning a dict
\* with a non-null answer, a list of sources and a list of context chunks.
C1_NeverRaises ==
    /\ pc \in {"idle", "await_embedding", "await_search", "await_generation", "returned"}
    /\ pc = "returned" =>
          /\ result # None
          /\ {"answer", "sources", "context_chunks"} \subseteq DOMAIN result[1]
          /\ result[1].answer # None
          /\ IsList(result[1].sources)
          /\ IsList(result[1].context_chunks)
    /\ pc # "returned" => result = None

\* C1 witness: the empty question has been answered although the embedding
\* and the search went through and generate_chat_response raised.
C1_Witness ==
    /\ pc = "returned"
    /\ question = <<>>
    /\ Raised("generate_chat_response")
    /\ result # None

\* C2: when generate_embedding raises, the result is the fixed
\* technical-difficulties text with no sources and no context chunks, for
\* general and technical questions alike, and neither search nor
\* generate_chat_response is called.
C2_EmbeddingFailure ==
    Raised("generate_embedding") =>
        /\ pc = "returned"
        /\ result = Some([answer |-> Some(TechnicalDifficultiesText),
                          sources |-> <<>>, context_chunks |-> <<>>])
        /\ ~Called("search")
        /\ ~Called("generate_chat_response")
        /\ search_results = None
        /\ generation_args = None

\* C2 witness: generate_embedding raised on a general question.
C2_Witness ==
    /\ Raised("generate_embedding")
    /\ is_general_question(question)
    /\ pc = "returned"

General(q) == \E i \in 1..Len(general_questions) : Contains(Lower(q), general_questions[i])

\* C4: for a question classified general, the context list passed to
\* generate_chat_response is empty, whatever the search returned.
C4_GeneralGetsNoContext ==
    (generation_args # None /\ General(question)) =>
        /\ generation_args[1].context_chunks = <<>>
        /\ generation_args[1].query = question

\* C4 witness: generate_chat_response has been called for the upper-case
\* greeting "HI" after a search with four hits.
C4_Witness ==
    /\ generation_args # None
    /\ question = <<"H", "I">>
    /\ Len(search_results[1]) = 4

Min(a, b) == IF a < b THEN a ELSE b

\* The text that joins the given one-token chunks with newlines, written out
\* position by position.
JoinedChunks(results, k) ==
    [j \in 1..(2 * k - 1) |->
        IF j % 2 = 1 THEN results[(j + 1) \div 2].payload.content[1] ELSE "\n"]

\* C5: for a question classified technical with n >= 1 results, the context
\* list handed to generate_chat_response is the content of every result in
\* rank order, and the message sent to the remote model carries the query
\* and exactly the first min(3, n) chunks in that order.
C5_TechnicalContext ==
    (generation_args # None /\ ~General(question)) =>
        LET results == search_results[1]
            n == Len(results)
            ctx == generation_args[1].context_chunks
        IN  /\ n >= 1
            /\ Len(ctx) = n
            /\ \A i \in 1..n : ctx[i] = results[i].payload.content
            /\ chat_request # None =>
                  chat_request[1].message =
                      question \o <<"\n", "\n\nContext:\n">> \o JoinedChunks(results, Min(3, n))

\* C5 witness: a technical question with four hits has been sent to the
\* remote model.
C5_Witness ==
    /\ chat_request # None
    /\ ~General(question)
    /\ Len(search_results[1]) = 4
    /\ search_results[1][4].payload.content # search_results[1][3].payload.content

\* The descriptor (chapter_slug, module_name, score) of a result, module_name
\* defaulting to 'unknown'.
Triple(r) ==
    <<r.payload.chapter_slug,
      IF "module_name" \in DOMAIN r.payload THEN r.payload.module_name ELSE "unknown",
      r.score>>

SourceTriple(src) == <<src.chapter_slug, src.module_name, src.score>>

\* The rank of the first result with the given descriptor.
FirstRank(results, t) ==
    CHOOSE k \in 1..Len(results) :
        /\ Triple(results[k]) = t
        /\ \A m \in 1..(k - 1) : Triple(results[m]) # t

C7_GeneralOnEmptyIndex ==
    (pc = "returned" /\ General(question) /\ Returned("search")
        /\ search_results = Some(<<>>)) =>
        /\ generation_args # None
        /\ generation_args[1].context_chunks = <<>>
        /\ generated # None
        /\ result[1].answer = generated[1]
        /\ client = "none" => /\ result[1].answer = Some(MockChatResponse(question))
                              /\ Contains(result[1].answer[1], question)

ResultFields == {"answer", "sources", "context_chunks"}

\* C8 as stated: every call leaves through one of three exits and every
\* result has exactly the fields answer, sources and context_chunks.
C8_ThreeExits ==
    pc = "returned" =>
        /\ exit \in {"embedding_failure", "no_context", "normal"}
        /\ DOMAIN result[1] = ResultFields

\* C8 amended: every call leaves through one of four exits, the three named
\* ones and the catch-all of the outer exception handler; every result has
\* the fields answer, sources and context_chunks, and the catch-all result
\* alone has one more field, error.
C8_FourExits ==
    pc = "returned" =>
        /\ exit \in {"embedding_failure", "no_context", "normal", "catch_all"}
        /\ DOMAIN result[1] =
              ResultFields \cup (IF exit = "catch_all" THEN {"error"} ELSE {})

\* C8 witness: a call has left through the catch-all after
\* generate_chat_response returned no text.
C8_Witness ==
    /\ pc = "returned"
    /\ exit = "catch_all"
    /\ generated = Some(None)
    /\ "error" \in DOMAIN result[1]

\* The fixed answers of answer_question.
FixedAnswers == { TechnicalDifficultiesText, NoContextText, CatchAllText }

\* C9: the answer of every result is the value generate_chat_response
\* returned or one of the fixed texts; the text of no exception caught during
\* the call occurs in it, and an exception text is returned in the error
\* field of the catch-all result only.
C9_NoErrorTextInAnswer ==
    pc = "returned" =>
        LET answer == result[1].answer[1]
        IN  /\ \/ answer \in FixedAnswers
               \/ generated # None /\ generated[1] = Some(answer)
            /\ \A i \in 1..Len(caught) : ~Contains(answer, caught[i])
            /\ "error" \in DOMAIN result[1] =>
                  /\ exit = "catch_all"
                  /\ caught # <<>>
                  /\ result[1].error = caught[Len(caught)]
            /\ exit = "catch_all" => "error" \in DOMAIN result[1]

\* C9 witness: the remote chat call failed inside generate_chat_response and
\* its fallback reply became the answer; another exception was caught before.
C9_Witness ==
    /\ pc = "returned"
    /\ exit = "normal"
    /\ Len(caught) = 2
    /\ result[1].answer = Some(FallbackChatResponse(question))

\* C9 second case, reached as well: the catch-all result carries the text.
C9_WitnessCatchAll ==
    /\ pc = "returned"
    /\ exit = "catch_all"
    /\ result[1].error = ChatErrorText

CallsOf(op) == Cardinality({ i \in 1..Len(trace) : trace[i] = Ev(op, "call") })

C11_NormalAnswerReturnsAll ==
    (pc = "returned" /\ exit = "normal") =>
        LET results == search_results[1]
            chunks == result[1].context_chunks
            sources == result[1].sources
        IN  /\ Len(chunks) = Len(results)
            /\ \A i \in 1..Len(results) : chunks[i] = results[i].payload.content
            /\ Len(sources) >= 1
            /\ Len(sources) = Cardinality({ Triple(results[k]) : k \in 1..Len(results) })
            /\ result[1].answer = generated[1]
            /\ General(question) => generation_args[1].context_chunks = <<>>

\* C11 witness: a general question with four hits got a normal answer with
\* four context chunks, while generation was given none.
C11_Witness ==
    /\ pc = "returned"
    /\ exit = "normal"
    /\ General(question)
    /\ Len(search_results[1]) = 4
    /\ Len(result[1].context_chunks) = 4
    /\ generation_args[1].context_chunks = <<>>

\* ---------------------------------------------------------------------------
\* The chat endpoint: api/routers/chat.py over the tables of api/db/init_db.py
\* ---------------------------------------------------------------------------

\* Number of chat requests in flight.
NumRequests == 2
Requests == 1..NumRequests

\* Rows of table users; user 2 is an identifier no row of users carries.
Users == {1}
RequestUserIds == {None, Some(1), Some(2)}
RequestSessionIds == {None, Some(1)}
RequestMessages == {"What is PID control?"}

\* Results answer_question hands back to the endpoint.
SampleResults == << Hit(CHOOSE p \in Points : p.payload.chapter_slug = "pid-control", MaxScore) >>
RagResponses ==
    { NoContextResult,
      NormalResult(Some(<<"remote", "model", "reply">>),
                   ExtractSources(SampleResults), ExtractContext(SampleResults)) }

\* "if user_id and user_id != 0"
ValidUser(user_id) == user_id # None /\ user_id[1] # 0

\* The row an INSERT INTO chat_sessions writes (user_id is NULL for anonymous users).
SessionRow(id, user_id) == [id |-> id, user_id |-> IF ValidUser(user_id) THEN user_id ELSE None]

SessionExists(id) == \E s \in chat_sessions : s.id = id

\* What PostgreSQL answers to INSERT INTO chat_sessions with this id: the primary
\* key index is probed as the row is written, the users(id) reference at the
\* end of the statement.
SessionInsert(id, user_id) ==
    IF SessionExists(id) THEN "UniqueViolationError"
    ELSE IF ValidUser(user_id) /\ user_id[1] \notin Users THEN "ForeignKeyViolationError"
    ELSE "ok"

\* What PostgreSQL answers to INSERT INTO chat_messages for this session_id.
MessageInsert(session_id) ==
    IF session_id # None /\ SessionExists(session_id[1]) THEN "ok" ELSE "ForeignKeyViolationError"

MessageRow(session_id, role, content, metadata) ==
    [session_id |-> session_id, role |-> role, content |-> content, metadata |-> metadata]

HTTPException(status_code, detail) == [status_code |-> status_code, detail |-> detail]

\* The HTTPException the handler raises inside its try block when
\* answer_question fails.
AIServiceError == HTTPException(500, "AI service error: <exception text>")

\* HandlerResponse with HTTPException re-raised as it is ("except
\* HTTPException: raise" ahead of the last clause).
HandlerResponse_ReraisesHTTPException(e) ==
    CASE e = "ForeignKeyViolationError" ->
            HTTPException(400, "Invalid session_id: session does not exist")
      [] e = "UniqueViolationError" ->
            HTTPException(409, "A session with this ID already exists but was not properly handled")
      [] e = "HTTPException" -> AIServiceError
      [] OTHER ->
            HTTPException(500, "Internal server error")

\* The except clauses that close handle_chat_message.
HandlerResponse(e) ==
    CASE e = "ForeignKeyViolationError" ->
            HTTPException(400, "Invalid session_id: session does not exist")
      [] e = "UniqueViolationError" ->
            HTTPException(409, "A session with this ID already exists but was not properly handled")
      [] OTHER ->
            HTTPException(500, "Internal server error")

SuccessResponse(session_id, rag_response) ==
    [status_code |-> 200, status |-> "success", session_id |-> session_id,
     response |-> rag_response.answer, sources |-> rag_response.sources]

\* The value ensure_session_exists returns after its INSERT: a duplicate insert
\* counts as success, every other error as failure.
EnsureResult_DuplicateIsFailure(outcome) == outcome = "ok"

EnsureResult(outcome) == outcome \in {"ok", "UniqueViolationError"}

IdleRequest ==
    [pc |-> "idle", user_id |-> None, request_session_id |-> None, message |-> "",
     session_id |-> None, session_exists |-> None, rag_response |-> None,
     response |-> None, steps |-> <<>>, raised |-> <<>>]

InitChat ==
    /\ RagIdle
    /\ StartupUnused
    /\ PoolUnused
    /\ CohereUnused
    /\ client = "none"
    /\ IndexUnused
    /\ chat_sessions = {}
    /\ session_seq = 0
    /\ chat_messages = <<>>
    /\ req = [r \in Requests |-> IdleRequest]

\* The request leaves the handler with this response.
Respond(r, response, raised) ==
    req' = [req EXCEPT ![r] = [@ EXCEPT !.pc = "done", !.response = Some(response),
                                         !.raised = @ \o raised]]

\* POST /chat/ arrives: session_id = request.session_id.
Receive(r) ==
    /\ req[r].pc = "idle"
    /\ \E user_id \in RequestUserIds, session_id \in RequestSessionIds, message \in RequestMessages :
          req' = [req EXCEPT ![r] = [@ EXCEPT
                     !.pc = IF session_id = None THEN "create_session" ELSE "select_session",
                     !.user_id = user_id, !.request_session_id = session_id,
                     !.message = message, !.session_id = session_id]]
    /\ UNCHANGED <<chat_sessions, session_seq, chat_messages>>

\* No session_id given: INSERT INTO chat_sessions ... RETURNING id. The SERIAL
\* sequence advances whether or not the row is written.
CreateSession(r) ==
    /\ req[r].pc = "create_session"
    /\ LET id == session_seq + 1
           outcome == SessionInsert(id, req[r].user_id)
       IN  /\ session_seq' = id
           /\ IF outcome = "ok"
              THEN /\ chat_sessions' = chat_sessions \cup {SessionRow(id, req[r].user_id)}
                   /\ req' = [req EXCEPT ![r] = [@ EXCEPT !.pc = "insert_user_message",
                                                        !.session_id = Some(id),
                                                        !.steps = Append(@, "session")]]
              ELSE /\ Respond(r, HandlerResponse(outcome), <<outcome>>)
                   /\ UNCHANGED chat_sessions
    /\ UNCHANGED chat_messages

\* ensure_session_exists: SELECT id FROM chat_sessions WHERE id = $1.
SelectSession(r) ==
    /\ req[r].pc = "select_session"
    /\ IF SessionExists(req[r].session_id[1])
       THEN req' = [req EXCEPT ![r] = [@ EXCEPT !.pc = "insert_user_message",
                                               !.session_exists = Some(TRUE),
                                               !.steps = Append(@, "session")]]
       ELSE req' = [req EXCEPT ![r] = [@ EXCEPT !.pc = "insert_session"]]
    /\ UNCHANGED <<chat_sessions, session_seq, chat_messages>>

\* ensure_session_exists has returned; "if not session_exists: raise HTTPException",
\* which the handler's last except clause catches.
AfterEnsure(r, session_exists, errors) ==
    IF session_exists
    THEN req' = [req EXCEPT ![r] = [@ EXCEPT !.pc = "insert_user_message",
                                            !.session_exists = Some(TRUE),
                                            !.steps = Append(@, "session"),
                                            !.raised = @ \o errors]]
    ELSE req' = [req EXCEPT ![r] = [@ EXCEPT !.pc = "done",
                                            !.session_exists = Some(FALSE),
                                            !.response = Some(HandlerResponse("HTTPException")),
                                            !.raised = @ \o errors \o <<"HTTPException">>]]

\* ensure_session_exists: INSERT INTO chat_sessions (id[, user_id]).
InsertSession(r) ==
    /\ req[r].pc = "insert_session"
    /\ LET id == req[r].session_id[1]
           outcome == SessionInsert(id, req[r].user_id)
       IN  /\ chat_sessions' = IF outcome = "ok"
                               THEN chat_sessions \cup {SessionRow(id, req[r].user_id)}
                               ELSE chat_sessions
           /\ AfterEnsure(r, EnsureResult(outcome), IF outcome = "ok" THEN <<>> ELSE <<outcome>>)
    /\ UNCHANGED <<session_seq, chat_messages>>

\* The user message is written although the session has not been resolved,
\* into a table that does not check session_id.
InsertUserMessage_BeforeSession(r) ==
    /\ req[r].pc \in {"insert_session", "insert_user_message"}
    /\ chat_messages' = Append(chat_messages,
                               MessageRow(req[r].session_id, "user", req[r].message, None))
    /\ req' = [req EXCEPT ![r] = [@ EXCEPT !.pc = "answering",
                                          !.steps = @ \o <<"user_message", "answer_call">>]]
    /\ UNCHANGED <<chat_sessions, session_seq>>

\* answer_question is called although the user message has not been written.
InsertUserMessage_Skipped(r) ==
    /\ req[r].pc = "insert_user_message"
    /\ req' = [req EXCEPT ![r] = [@ EXCEPT !.pc = "answering",
                                          !.steps = @ \o <<"answer_call">>]]
    /\ UNCHANGED <<chat_sessions, session_seq, chat_messages>>

\* INSERT INTO chat_messages (session_id, 'user', message), then answer_question
\* is called.
InsertUserMessage(r) ==
    /\ req[r].pc = "insert_user_message"
    /\ LET outcome == MessageInsert(req[r].session_id)
       IN  IF outcome = "ok"
           THEN /\ chat_messages' = Append(chat_messages,
                                           MessageRow(req[r].session_id, "user", req[r].message, None))
                /\ req' = [req EXCEPT ![r] = [@ EXCEPT !.pc = "answering",
                                                     !.steps = @ \o <<"user_message", "answer_call">>]]
           ELSE /\ Respond(r, HandlerResponse(outcome), <<outcome>>)
                /\ UNCHANGED chat_messages
    /\ UNCHANGED <<chat_sessions, session_seq>>

\* answer_question returns a result that carries an answer.
AnswerReturns(r) ==
    /\ req[r].pc = "answering"
    /\ \E rag_response \in RagResponses :
          req' = [req EXCEPT ![r] = [@ EXCEPT !.pc = "insert_assistant",
                                             !.rag_response = Some(rag_response),
                                             !.steps = Append(@, "answer_return")]]
    /\ UNCHANGED <<chat_sessions, session_seq, chat_messages>>

\* answer_question raises or returns no answer: HTTPException("AI service
\* error: ..."), which the handler's last except clause catches.
AnswerFails(r) ==
    /\ req[r].pc = "answering"
    /\ Respond(r, HandlerResponse("HTTPException"), <<"Exception", "HTTPException">>)
    /\ UNCHANGED <<chat_sessions, session_seq, chat_messages>>

\* INSERT INTO chat_messages (session_id, 'assistant', answer, metadata), then
\* the success response.
InsertAssistantMessage(r) ==
    /\ req[r].pc = "insert_assistant"
    /\ LET rag_response == req[r].rag_response[1]
           outcome == MessageInsert(req[r].session_id)
       IN  /\ chat_messages' =
                 IF outcome = "ok"
                 THEN Append(chat_messages,
                             MessageRow(req[r].session_id, "assistant", rag_response.answer,
                                        Some([sources |-> rag_response.sources])))
                 ELSE chat_messages
           /\ req' = [req EXCEPT ![r] = [@ EXCEPT
                         !.pc = "done",
                         !.response = Some(SuccessResponse(req[r].session_id, rag_response)),
                         !.steps = IF outcome = "ok" THEN Append(@, "assistant_message") ELSE @,
                         !.raised = IF outcome = "ok" THEN @ ELSE Append(@, outcome)]]
    /\ UNCHANGED <<chat_sessions, session_seq>>

\* DatabaseFails with the failure of the assistant INSERT reaching the
\* handler's last except clause like any other.
DatabaseFails_AssistantFatal(r) ==
    /\ req[r].pc \in {"create_session", "select_session", "insert_session",
                      "insert_user_message", "insert_assistant"}
    /\ CASE req[r].pc = "insert_session" ->
              AfterEnsure(r, EnsureResult("Exception"), <<"Exception">>)
         [] OTHER ->
              Respond(r, HandlerResponse("Exception"), <<"Exception">>)
    /\ UNCHANGED <<chat_sessions, session_seq, chat_messages>>

\* get_connection or a statement fails for a reason other than a constraint
\* (pool exhausted, connection lost, value not encodable). Inside
\* ensure_session_exists' INSERT the error makes it return False; around the
\* assistant message it is logged and dropped; anywhere else it reaches the
\* handler's last except clause.
DatabaseFails(r) ==
    /\ req[r].pc \in {"create_session", "select_session", "insert_session",
                      "insert_user_message", "insert_assistant"}
    /\ CASE req[r].pc = "insert_session" ->
              AfterEnsure(r, EnsureResult("Exception"), <<"Exception">>)
         [] req[r].pc = "insert_assistant" ->
              req' = [req EXCEPT ![r] = [@ EXCEPT
                         !.pc = "done",
                         !.response = Some(SuccessResponse(req[r].session_id, req[r].rag_response[1])),
                         !.raised = Append(@, "Exception")]]
         [] OTHER ->
              Respond(r, HandlerResponse("Exception"), <<"Exception">>)
    /\ UNCHANGED <<chat_sessions, session_seq, chat_messages>>

NextChat ==
    \/ \E r \in Requests : Receive(r) /\ UNCHANGED <<ragVars, indexVars, restVars>>
    \/ \E r \in Requests : CreateSession(r) /\ UNCHANGED <<ragVars, indexVars, restVars>>
    \/ \E r \in Requests : SelectSession(r) /\ UNCHANGED <<ragVars, indexVars, restVars>>
    \/ \E r \in Requests : InsertSession(r) /\ UNCHANGED <<ragVars, indexVars, restVars>>
    \/ \E r \in Requests : InsertUserMessage(r) /\ UNCHANGED <<ragVars, indexVars, restVars>>
    \/ \E r \in Requests : AnswerReturns(r) /\ UNCHANGED <<ragVars, indexVars, restVars>>
    \/ \E r \in Requests : AnswerFails(r) /\ UNCHANGED <<ragVars, indexVars, restVars>>
    \/ \E r \in Requests : InsertAssistantMessage(r) /\ UNCHANGED <<ragVars, indexVars, restVars>>
    \/ \E r \in Requests : DatabaseFails(r) /\ UNCHANGED <<ragVars, indexVars, restVars>>

SpecChat == InitChat /\ [][NextChat]_vars

\* ---------------------------------------------------------------------------
\* Properties of the chat endpoint
\* ---------------------------------------------------------------------------

Elems(seq) == { seq[i] : i \in 1..Len(seq) }

SessionRows(id) == { s \in chat_sessions : s.id = id }

\* The requests that carry session_id = id.
Carrying(id) == { r \in Requests : req[r].request_session_id = Some(id) }

\* A reason for a request to fail that is its own: a database or answerer fault
\* during the request, or a user_id that no row of users carries.
OwnFailure(r) ==
    \/ "Exception" \in Elems(req[r].raised)
    \/ ValidUser(req[r].user_id) /\ req[r].user_id[1] \notin Users

Answered(r) == req[r].pc = "done"

\* C12: session creation through ensure_session_exists is idempotent under
\* concurrency. For the requests that carry the same session_id: at most one
\* row with that id ever exists, and exactly one once any call has reported
\* success; a call reports failure only for a reason of its own (a duplicate
\* insert counts as success); and a request with no failure of its own is
\* answered with the success response, whatever the interleaving.
C12_IdempotentSessionCreation ==
    \A id \in { sid[1] : sid \in RequestSessionIds \ {None} } :
        /\ Cardinality(SessionRows(id)) <= 1
        /\ \A r \in Carrying(id) :
              /\ req[r].session_exists = Some(TRUE) => Cardinality(SessionRows(id)) = 1
              /\ req[r].session_exists = Some(FALSE) => OwnFailure(r)
              /\ (Answered(r) /\ ~OwnFailure(r)) =>
                    /\ req[r].session_exists = Some(TRUE)
                    /\ req[r].response[1].status_code = 200
                    /\ req[r].response[1].session_id = Some(id)

\* Both requests carried the same new session_id, both found no row, the second
\* INSERT hit the primary key, and both were answered with success.
C12_Witness ==
    \E r1, r2 \in Requests :
        /\ r1 # r2
        /\ {r1, r2} \subseteq Carrying(1)
        /\ Answered(r1) /\ Answered(r2)
        /\ req[r1].raised = <<>>
        /\ req[r2].raised = <<"UniqueViolationError">>
        /\ req[r1].response[1].status_code = 200
        /\ req[r2].response[1].status_code = 200
        /\ Cardinality(SessionRows(1)) = 1

\* C13: referential integrity. In every reachable state every stored message
\* references a session that exists, and in every step every session id that
\* exists before the step exists after it.
C13_ReferentialIntegrity ==
    /\ [](\A i \in 1..Len(chat_messages) :
             /\ chat_messages[i].session_id # None
             /\ SessionExists(chat_messages[i].session_id[1]))
    /\ [][ \A s \in chat_sessions : \E t \in chat_sessions' : t.id = s.id ]_vars

\* Messages are stored under two sessions with server-assigned ids.
C13_Witness ==
    /\ Cardinality(chat_sessions) = 2
    /\ \E i, j \in 1..Len(chat_messages) :
          /\ chat_messages[i].session_id = Some(1)
          /\ chat_messages[j].session_id = Some(2)
    /\ \E r \in Requests : req[r].request_session_id = None /\ req[r].session_id = Some(2)

IsPrefix(s, t) == Len(s) <= Len(t) /\ \A i \in 1..Len(s) : s[i] = t[i]

HandlerSteps == <<"session", "user_message", "answer_call", "answer_return", "assistant_message">>

Did(r, step) == step \in Elems(req[r].steps)

RowsWithRole(role) == { i \in 1..Len(chat_messages) : chat_messages[i].role = role }

\* C14: within one chat request the session id is resolved or created, then the
\* user message is persisted, then answer_question is called, then the
\* assistant message is persisted with the source list as metadata. The steps a
\* request has taken are always a prefix of that order; the table holds one
\* user row per request that has stored its message and one assistant row per
\* request whose answer has returned and been stored, carrying the sources.
C14_StepOrder ==
    /\ \A r \in Requests :
          /\ IsPrefix(req[r].steps, HandlerSteps)
          /\ Did(r, "answer_call") =>
                \E i \in RowsWithRole("user") :
                    /\ chat_messages[i].session_id = req[r].session_id
                    /\ chat_messages[i].content = req[r].message
          /\ Did(r, "assistant_message") =>
                /\ req[r].rag_response # None
                /\ \E i \in RowsWithRole("assistant") :
                      /\ chat_messages[i].session_id = req[r].session_id
                      /\ chat_messages[i].content = req[r].rag_response[1].answer
                      /\ chat_messages[i].metadata =
                            Some([sources |-> req[r].rag_response[1].sources])
    /\ Cardinality(RowsWithRole("user")) =
          Cardinality({ r \in Requests : Did(r, "user_message") })
    /\ Cardinality(RowsWithRole("assistant")) =
          Cardinality({ r \in Requests : Did(r, "assistant_message") })

\* A request went through all five steps and stored a non-empty source list.
C14_Witness ==
    \E r \in Requests :
        /\ Answered(r)
        /\ req[r].steps = HandlerSteps
        /\ req[r].response[1].status_code = 200
        /\ req[r].rag_response[1].sources # <<>>
        /\ \E i \in RowsWithRole("assistant") :
              chat_messages[i].metadata = Some([sources |-> req[r].rag_response[1].sources])

\* C26 (as stated): a request that supplies no session_id is never answered
\* with the duplicate-id conflict (409); unless the database fails or its
\* user_id is unknown, it obtains a session under a server-assigned id.
C26_NewSessionNeverConflicts ==
    \A r \in Requests :
        (req[r].request_session_id = None /\ Answered(r)) =>
            /\ req[r].response[1].status_code # 409
            /\ ~OwnFailure(r) => (Did(r, "session") /\ req[r].session_id # None)

\* C27: a failure while the assistant message is persisted does not fail the
\* request. Once answer_question has returned, the request ends with the
\* success response that carries the answer and the sources, whether or not
\* the assistant row was written; the user row of every request that stored
\* one stays in the table; and no step removes or changes a stored message.
C27_AssistantInsertBestEffort ==
    /\ [](\A r \in Requests :
             /\ (Answered(r) /\ Did(r, "answer_return")) =>
                   /\ req[r].response[1] = SuccessResponse(req[r].session_id, req[r].rag_response[1])
                   /\ req[r].response[1].status = "success"
                   /\ req[r].response[1].response = req[r].rag_response[1].answer
                   /\ req[r].response[1].sources = req[r].rag_response[1].sources
             /\ Did(r, "user_message") =>
                   \E i \in RowsWithRole("user") : chat_messages[i].session_id = req[r].session_id)
    /\ [][IsPrefix(chat_messages, chat_messages')]_vars

\* A request was answered with success although its assistant INSERT failed:
\* its session holds the user message and no assistant message.
C27_Witness ==
    \E r \in Requests :
        /\ Answered(r)
        /\ req[r].response[1].status_code = 200
        /\ Did(r, "answer_return")
        /\ ~Did(r, "assistant_message")
        /\ "Exception" \in Elems(req[r].raised)
        /\ \E i \in RowsWithRole("user") : chat_messages[i].session_id = req[r].session_id
        /\ \A i \in RowsWithRole("assistant") : chat_messages[i].session_id # req[r].session_id

ScrollLimit == 10000

\* Number of batches sent to the backend.
MaxUpserts == 2

Max(a, b) == IF a > b THEN a ELSE b

\* A python list written as runs: n equal items in a row.
Run(item, n) == [item |-> item, n |-> n]

\* len(list)
RECURSIVE ListLen(_)
ListLen(runs) == IF runs = <<>> THEN 0 ELSE runs[1].n + ListLen(Tail(runs))

Document(id) == (CHOOSE p \in Points : p.id = id).payload

Vectors == { MockEmbedding, RemoteEmbedding }
QueryVectors == { MockEmbedding }

\* The (documents, embeddings) arguments of upsert_documents: empty lists, one
\* chunk, two chunks of two chapters, lists of different lengths (one of them
\* with no document), the same chunk again, and a chapter of ScrollLimit chunks.
Batches ==
    { [documents |-> <<>>, embeddings |-> <<>>],
      [documents |-> <<Run(Document(1), 1)>>, embeddings |-> <<Run(MockEmbedding, 1)>>],
      [documents |-> <<Run(Document(2), 1), Run(Document(3), 1)>>,
       embeddings |-> <<Run(RemoteEmbedding, 1), Run(MockEmbedding, 1)>>],
      [documents |-> <<Run(Document(1), 1), Run(Document(4), 1)>>,
       embeddings |-> <<Run(MockEmbedding, 1)>>],
      [documents |-> <<>>, embeddings |-> <<Run(MockEmbedding, 1)>>],
      [documents |-> <<Run(Document(1), ScrollLimit)>>,
       embeddings |-> <<Run(MockEmbedding, ScrollLimit)>>] }

\* The stored points are kept as extents: the points lo..hi, all with this
\* vector and payload.
Extent(lo, hi, vector, payload) == [lo |-> lo, hi |-> hi, vector |-> vector, payload |-> payload]

\* Number of points in a set of extents.
RECURSIVE Size(_)
Size(points) ==
    IF points = {} THEN 0
    ELSE LET e == CHOOSE x \in points : TRUE
         IN  (e.hi - e.lo + 1) + Size(points \ {e})

\* The identifiers of a batch derived from the position in the batch.
PointIds_ByPosition(produced, n) == [lo |-> 1, hi |-> n]

\* id=str(uuid4()) for each of the n points of a batch, after `produced`
\* identifiers were handed out: identifiers handed out apart differ.
PointIds(produced, n) == [lo |-> produced + 1, hi |-> produced + n]

\* [PointStruct(id, vector=embedding, payload=doc) for doc, embedding in zip(...)]
RECURSIVE PointStructs(_, _, _)
PointStructs(documents, embeddings, first) ==
    IF documents = <<>> \/ embeddings = <<>> THEN {}
    ELSE {Extent(first, first + documents[1].n - 1, embeddings[1].item, documents[1].item)}
         \cup PointStructs(Tail(documents), Tail(embeddings), first + documents[1].n)

\* What is left of extent e without the identifiers a..b.
Without(e, a, b) ==
    { [e EXCEPT !.hi = Min(e.hi, a - 1)] : x \in { y \in {1} : e.lo <= Min(e.hi, a - 1) } }
    \cup { [e EXCEPT !.lo = Max(e.lo, b + 1)] : x \in { y \in {1} : Max(e.lo, b + 1) <= e.hi } }

\* The backend's delete of a set of identifier ranges.
RECURSIVE WithoutAll(_, _)
WithoutAll(points, ids) ==
    IF ids = {} THEN points
    ELSE LET p == CHOOSE x \in ids : TRUE
         IN  WithoutAll(UNION { Without(e, p.lo, p.hi) : e \in points }, ids \ {p})

\* The backend's upsert: a point written under a stored identifier replaces it.
Upserted(points, new) ==
    WithoutAll(points, { [lo |-> e.lo, hi |-> e.hi] : e \in new }) \cup new

\* The query filter search builds: "if chapter_slug or module_name", then one
\* condition per argument that is true as a condition.
QueryFilter(slug, module_name) ==
    [chapter_slug |-> IF Truthy(slug) THEN slug ELSE None,
     module_name  |-> IF Truthy(module_name) THEN module_name ELSE None]

\* Filter(must=[...]) applied to a payload.
Passes(payload, filter) ==
    /\ filter.chapter_slug # None => payload.chapter_slug = filter.chapter_slug[1]
    /\ filter.module_name # None =>
          "module_name" \in DOMAIN payload /\ payload.module_name = filter.module_name[1]

\* Similarity of a stored vector to the query vector.
Score(query_vector, vector) == IF vector = query_vector THEN MaxScore ELSE 1

\* The hits among which the best `limit` are.
Candidates(points, query_vector, limit, filter) ==
    UNION { { [id |-> i, score |-> Score(query_vector, e.vector), payload |-> e.payload] :
              i \in e.lo..Min(e.hi, e.lo + limit - 1) } :
            e \in { x \in points : Passes(x.payload, filter) } }

\* The k best hits, most similar first and equal scores in identifier order.
RECURSIVE Ranked(_, _)
Ranked(hits, k) ==
    IF k = 0 \/ hits = {} THEN <<>>
    ELSE LET best == CHOOSE c \in hits :
                        \A d \in hits : c.score > d.score \/ (c.score = d.score /\ c.id <= d.id)
         IN  <<best>> \o Ranked(hits \ {best}, k - 1)

\* client.query_points(query, limit, query_filter), formatted.
query_points(points, query_vector, limit, filter) ==
    Ranked(Candidates(points, query_vector, limit, filter), limit)

\* The except clause of search lets the error out.
SearchExcept_Raises(e) == [raised |-> Some(e), result |-> None]

\* The except clause of search: "return []".
SearchExcept(e) == [raised |-> None, result |-> Some(<<>>)]

SearchChapters == { None, Some(""), Some("kinematics"), Some("pid-control") }
SearchModules == { None, Some(""), Some("Robot Kinematics") }
SearchLimits == { top_k }
DeleteChapters == { "kinematics", "pid-control", "intro-robotics" }

\* client.scroll(scroll_filter, limit): the first `limit` points of the
\* chapter in identifier order, as identifier ranges.
RECURSIVE ScrollPage(_, _)
ScrollPage(points, limit) ==
    IF points = {} \/ limit = 0 THEN {}
    ELSE LET e == CHOOSE x \in points : \A y \in points : x.lo <= y.lo
             n == Min(limit, e.hi - e.lo + 1)
         IN  {[lo |-> e.lo, hi |-> e.lo + n - 1]} \cup ScrollPage(points \ {e}, limit - n)

InChapter(points, slug) == { e \in points : e.payload.chapter_slug = slug }

InitIndex ==
    /\ RagIdle
    /\ StartupUnused
    /\ PoolUnused
    /\ CohereUnused
    /\ client = "none"
    /\ ChatUnused
    /\ IndexUnused

UpsertCall(batch, raised, backend_calls) ==
    Some([op |-> "upsert_documents", n_documents |-> ListLen(batch.documents),
          n_embeddings |-> ListLen(batch.embeddings), raised |-> raised,
          backend_calls |-> backend_calls])

\* The length check of upsert_documents lets the batch through.
UpsertRejects_Never(batch) == FALSE

\* "if len(documents) != len(embeddings): raise ValueError"
UpsertRejects(batch) == ListLen(batch.documents) # ListLen(batch.embeddings)

\* upsert_documents returns or raises before it builds a point.
UpsertNothing(batch) ==
    /\ UpsertRejects(batch) \/ batch.documents = <<>>
    /\ last_call' = UpsertCall(batch, IF UpsertRejects(batch) THEN Some("ValueError") ELSE None, 0)
    /\ UNCHANGED <<index_points, uuid_count, upserts, del>>

\* upsert_documents builds the points and client.upsert stores them.
Upsert(batch) ==
    /\ upserts < MaxUpserts
    /\ ~UpsertRejects(batch)
    /\ batch.documents # <<>>
    /\ LET n == Min(ListLen(batch.documents), ListLen(batch.embeddings))
           ids == PointIds(uuid_count, n)
           points == PointStructs(batch.documents, batch.embeddings, ids.lo)
       IN  /\ index_points' = Upserted(index_points, points)
           /\ uuid_count' = uuid_count + n
           /\ del' = IF del = None THEN del
                      ELSE Some([del[1] EXCEPT !.upserted = @ \cup points])
    /\ upserts' = upserts + 1
    /\ last_call' = UpsertCall(batch, None, 1)

\* client.upsert raises: upsert_documents logs and raises again.
UpsertFails(batch) ==
    /\ upserts < MaxUpserts
    /\ ~UpsertRejects(batch)
    /\ batch.documents # <<>>
    /\ uuid_count' = uuid_count + ListLen(batch.documents)
    /\ upserts' = upserts + 1
    /\ last_call' = UpsertCall(batch, Some("Exception"), 1)
    /\ UNCHANGED <<index_points, del>>

SearchCall(query_vector, limit, slug, module_name, backend, outcome) ==
    Some([op |-> "search", query_vector |-> query_vector, limit |-> limit,
          chapter_slug |-> slug, module_name |-> module_name,
          backend |-> backend, raised |-> outcome.raised, result |-> outcome.result])

\* search: the query goes through and its points are formatted.
Search(query_vector, limit, slug, module_name) ==
    /\ last_call' = SearchCall(query_vector, limit, slug, module_name, "ok",
                        [raised |-> None,
                         result |-> Some(query_points(index_points, query_vector, limit,
                                                      QueryFilter(slug, module_name)))])
    /\ UNCHANGED <<index_points, uuid_count, upserts, del>>

\* search: client.query_points raises.
SearchFails(query_vector, limit, slug, module_name) ==
    /\ last_call' = SearchCall(query_vector, limit, slug, module_name, "failed",
                               SearchExcept("Exception"))
    /\ UNCHANGED <<index_points, uuid_count, upserts, del>>

DeleteIdle == IF del = None THEN TRUE ELSE del[1].pc \in {"done", "raised"}

\* delete_by_chapter up to the answer of client.scroll; with no record found
\* the call is over.
DeleteScroll(slug) ==
    /\ DeleteIdle
    /\ LET point_ids == ScrollPage(InChapter(index_points, slug), ScrollLimit)
       IN  del' = Some([chapter_slug |-> slug,
                        pc |-> IF point_ids = {} THEN "done" ELSE "delete",
                        point_ids |-> point_ids,
                        at_scroll |-> index_points,
                        uuid_at_scroll |-> uuid_count,
                        upserted |-> {}])
    /\ UNCHANGED <<index_points, uuid_count, upserts, last_call>>

\* The delete removes every point of the chapter stored at that moment.
DeleteSelected_ByFilter ==
    /\ del # None
    /\ del[1].pc = "delete"
    /\ index_points' = index_points \ InChapter(index_points, del[1].chapter_slug)
    /\ del' = Some([del[1] EXCEPT !.pc = "done"])
    /\ UNCHANGED <<uuid_count, upserts, last_call>>

\* delete_by_chapter: client.delete(points_selector=point_ids).
DeleteSelected ==
    /\ del # None
    /\ del[1].pc = "delete"
    /\ index_points' = WithoutAll(index_points, del[1].point_ids)
    /\ del' = Some([del[1] EXCEPT !.pc = "done"])
    /\ UNCHANGED <<uuid_count, upserts, last_call>>

\* client.scroll or client.delete raises: delete_by_chapter logs and raises again.
DeleteFails(slug) ==
    /\ \/ /\ DeleteIdle
          /\ del' = Some([chapter_slug |-> slug, pc |-> "raised", point_ids |-> {},
                          at_scroll |-> index_points, uuid_at_scroll |-> uuid_count,
                          upserted |-> {}])
       \/ /\ del # None
          /\ del[1].pc = "delete"
          /\ del[1].chapter_slug = slug
          /\ del' = Some([del[1] EXCEPT !.pc = "raised"])
    /\ UNCHANGED <<index_points, uuid_count, upserts, last_call>>

NextIndex ==
    \/ \E batch \in Batches : UpsertNothing(batch) /\ UNCHANGED <<ragVars, chatVars, restVars>>
    \/ \E batch \in Batches : Upsert(batch) /\ UNCHANGED <<ragVars, chatVars, restVars>>
    \/ \E batch \in Batches : UpsertFails(batch) /\ UNCHANGED <<ragVars, chatVars, restVars>>
    \/ \E query_vector \in QueryVectors, limit \in SearchLimits,
          slug \in SearchChapters, module_name \in SearchModules :
          Search(query_vector, limit, slug, module_name) /\ UNCHANGED <<ragVars, chatVars, restVars>>
    \/ \E query_vector \in QueryVectors, limit \in SearchLimits,
          slug \in SearchChapters, module_name \in SearchModules :
          SearchFails(query_vector, limit, slug, module_name) /\ UNCHANGED <<ragVars, chatVars, restVars>>
    \/ \E slug \in DeleteChapters : DeleteScroll(slug) /\ UNCHANGED <<ragVars, chatVars, restVars>>
    \/ DeleteSelected /\ UNCHANGED <<ragVars, chatVars, restVars>>
    \/ \E slug \in DeleteChapters : DeleteFails(slug) /\ UNCHANGED <<ragVars, chatVars, restVars>>

SpecIndex == InitIndex /\ [][NextIndex]_vars

\* ---------------------------------------------------------------------------
\* Properties of the vector index
\* ---------------------------------------------------------------------------

LastCallIs(op) == IF last_call = None THEN FALSE ELSE last_call[1].op = op

\* C15: upsert_documents called with documents and embeddings of different
\* lengths raises ValueError before any backend call, and the step leaves the
\* index content as it was.
C15_MismatchRejected ==
    /\ []( (LastCallIs("upsert_documents") /\ last_call[1].n_documents # last_call[1].n_embeddings)
           => (last_call[1].raised = Some("ValueError") /\ last_call[1].backend_calls = 0) )
    /\ [][ ( /\ last_call' # last_call
             /\ last_call' # None
             /\ last_call'[1].op = "upsert_documents"
             /\ last_call'[1].n_documents # last_call'[1].n_embeddings )
           => (index_points' = index_points /\ upserts' = upserts) ]_vars

\* A batch of two documents and one embedding was rejected while the index
\* held points.
C15_Witness ==
    /\ LastCallIs("upsert_documents")
    /\ last_call[1].n_documents = 2
    /\ last_call[1].n_embeddings = 1
    /\ last_call[1].raised = Some("ValueError")
    /\ Size(index_points) = 2

\* The identifiers lo..hi of two extents have none in common.
Disjoint(e, f) == e.hi < f.lo \/ f.hi < e.lo

\* C16: every upsert_documents call stores each chunk under a fresh identifier.
\* No two stored entries share an identifier and no stored identifier is one
\* that was not generated; a successful upsert of n chunks keeps every entry
\* the index held, adds n entries, and gives them identifiers generated after
\* all earlier ones.
C16_FreshIdentifiers ==
    /\ [](\A e \in index_points :
             /\ 1 <= e.lo /\ e.lo <= e.hi /\ e.hi <= uuid_count
             /\ \A f \in index_points \ {e} : Disjoint(e, f))
    /\ [][ (upserts' = upserts + 1 /\ last_call'[1].raised = None)
           => /\ index_points \subseteq index_points'
              /\ Size(index_points') = Size(index_points) + last_call'[1].n_documents
              /\ \A e \in index_points' \ index_points : e.lo > uuid_count ]_vars

\* The same chunk with the same vector is stored twice, under two identifiers.
C16_Witness ==
    \E e, f \in index_points :
        /\ e.lo # f.lo
        /\ e.payload = f.payload
        /\ e.vector = f.vector
        /\ e.lo = e.hi /\ f.lo = f.hi

\* C17: search never raises; when the backend fails it returns the empty
\* list, the value it returns for a query that matches nothing.
C17_SearchNeverRaises ==
    LastCallIs("search") =>
        /\ last_call[1].raised = None
        /\ last_call[1].result # None
        /\ last_call[1].backend = "failed" =>
              /\ last_call[1].result[1] = <<>>
              /\ last_call[1].result[1] =
                    query_points({}, last_call[1].query_vector, last_call[1].limit,
                                 QueryFilter(last_call[1].chapter_slug, last_call[1].module_name))

\* The backend failed on a query that stored points match.
C17_Witness ==
    /\ LastCallIs("search")
    /\ last_call[1].backend = "failed"
    /\ last_call[1].result = Some(<<>>)
    /\ query_points(index_points, last_call[1].query_vector, last_call[1].limit,
                    QueryFilter(last_call[1].chapter_slug, last_call[1].module_name)) # <<>>

\* The filter made of every argument the caller supplies (None is "not supplied").
SuppliedFilter(slug, module_name) == [chapter_slug |-> slug, module_name |-> module_name]

\* C18 (as stated): for every search call each supplied filter argument is
\* applied, the empty string included: every returned result matches the
\* supplied chapter and the supplied module, and the call returns what the
\* query under exactly the supplied filters returns (the whole collection is
\* searched when no filter is supplied).
C18_SuppliedFiltersApplied ==
    [][ ( /\ last_call' # None
          /\ last_call'[1].op = "search"
          /\ last_call'[1].backend = "ok"
          /\ index_points' = index_points )
        => LET call == last_call'[1]
               results == call.result[1]
               supplied == SuppliedFilter(call.chapter_slug, call.module_name)
           IN  /\ \A i \in 1..Len(results) : Passes(results[i].payload, supplied)
               /\ results = query_points(index_points, call.query_vector, call.limit, supplied)
      ]_vars

\* C19 (as stated): after delete_by_chapter(c) has completed with no upsert
\* since it began, a search filtered to chapter c returns zero results,
\* whatever the index held, and the entries of the other chapters are in place.
C19_DeleteThenSearchEmpty ==
    (del # None /\ del[1].pc = "done" /\ del[1].upserted = {}) =>
        LET c == del[1].chapter_slug
        IN  /\ \A query_vector \in QueryVectors, limit \in SearchLimits :
                  query_points(index_points, query_vector, limit,
                               QueryFilter(Some(c), None)) = <<>>
            /\ index_points \ InChapter(index_points, c)
                  = del[1].at_scroll \ InChapter(del[1].at_scroll, c)

\* C20: delete_by_chapter is not atomic: once it has completed, the index
\* holds what it held at the scan without the identifiers the scan saw,
\* together with everything upserted since the scan.
C20_DeletesExactlyScanned ==
    (del # None /\ del[1].pc = "done") =>
        index_points = WithoutAll(del[1].at_scroll, del[1].point_ids) \cup del[1].upserted

\* delete_by_chapter(c) has scanned and deleted points of chapter c, and an
\* entry of chapter c upserted after the scan is in the index.
C20_Witness ==
    /\ del # None
    /\ del[1].pc = "done"
    /\ del[1].point_ids # {}
    /\ \E e \in del[1].upserted :
          /\ e.payload.chapter_slug = del[1].chapter_slug
          /\ e \in index_points

\* ---------------------------------------------------------------------------
\* The collection and the processes that use it: VectorService.create_collection,
\* api/main.py, api/load_textbook_content.py, api/vercel_api.py
\* ---------------------------------------------------------------------------

\* "vector_size: int = 768" of create_collection.
DefaultVectorSize == 768

\* "create_collection(vector_size=1024, force_recreate=False)" of lifespan.
StartupVectorSize == 1024

\* Number of create_collection calls.
MaxCreateCalls == 2

\* Number of processes started one after the other.
MaxProcesses == 2

VectorSizes == { DefaultVectorSize, StartupVectorSize }

\* VectorParams(size=vector_size, distance=Distance.COSINE)
VectorParams(vector_size) == [size |-> vector_size, distance |-> "Cosine"]

\* The entry points: the API server with its lifespan, the content loader,
\* and the serverless application that has no lifespan.
EntryPoints == { "main", "load_textbook_content", "vercel_api" }

\* A point stored in a collection of the given dimension.
StoredPoint(id, vector_size) ==
    Extent(id, id, [size |-> vector_size, component |-> "0.1"], Document(1))

\* The collection and its content as a caller finds them.
Backend == [collection |-> collection, points |-> index_points]

InitStartup ==
    /\ RagIdle
    /\ client = "none"
    /\ ChatUnused
    /\ PoolUnused
    /\ CohereUnused
    /\ upserts = 0
    /\ del = None
    /\ last_call = None
    /\ proc = None
    /\ cc = None
    /\ cc_log = <<>>
    /\ \E vector_size \in VectorSizes, n \in {0, 1, 2} :
          IF n = 0
          THEN collection = None /\ index_points = {} /\ uuid_count = 0
          ELSE /\ collection = Some(VectorParams(vector_size))
               /\ uuid_count = n - 1
               /\ index_points = { StoredPoint(i, vector_size) : i \in 1..(n - 1) }

\* Every existing collection is deleted, whatever force_recreate says.
AfterGetCollections_AlwaysRecreate(exists, force_recreate) ==
    IF exists THEN "delete_collection" ELSE "create_collection"

\* create_collection after get_collections: "if exists: if force_recreate:
\* delete ... else: return", otherwise on to the creation.
AfterGetCollections(exists, force_recreate) ==
    IF exists
    THEN IF force_recreate THEN "delete_collection" ELSE "returned"
    ELSE "create_collection"

\* The create_collection call has ended: it is logged, and the startup that
\* made it goes on or fails.
CallEnded(call, outcome) ==
    /\ cc' = None
    /\ cc_log' = Append(cc_log, [vector_size |-> call.vector_size,
                                 force_recreate |-> call.force_recreate,
                                 outcome |-> outcome,
                                 before |-> call.before,
                                 after |-> [collection |-> collection', points |-> index_points']])
    /\ proc' = IF call.caller = "lifespan"
               THEN Some([proc[1] EXCEPT !.pc = IF outcome = "returned" THEN "serving" ELSE "failed",
                                         !.ensured = (outcome = "returned")])
               ELSE proc

\* create_collection is called and client.get_collections answers.
GetCollections(vector_size, force_recreate, caller) ==
    LET call == [vector_size |-> vector_size, force_recreate |-> force_recreate,
                 caller |-> caller, before |-> Backend,
                 pc |-> AfterGetCollections(collection # None, force_recreate)]
    IN  /\ UNCHANGED <<collection, indexVars>>
        /\ IF call.pc = "returned"
           THEN CallEnded(call, "returned")
           ELSE cc' = Some(call) /\ UNCHANGED <<cc_log, proc>>

\* create_collection called on its own (a script or a shell).
CreateCollectionCalled(vector_size, force_recreate) ==
    /\ cc = None
    /\ Len(cc_log) < MaxCreateCalls
    /\ IF proc = None THEN TRUE ELSE proc[1].pc # "startup"
    /\ GetCollections(vector_size, force_recreate, "direct")

\* client.delete_collection: the collection goes with its points.
DeleteCollection ==
    /\ cc # None
    /\ cc[1].pc = "delete_collection"
    /\ collection' = None
    /\ index_points' = {}
    /\ cc' = Some([cc[1] EXCEPT !.pc = "create_collection"])
    /\ UNCHANGED <<uuid_count, upserts, del, last_call, proc, cc_log>>

\* client.create_collection: a new empty collection, or an error when one of
\* that name exists.
CreateCollection ==
    /\ cc # None
    /\ cc[1].pc = "create_collection"
    /\ IF collection = None
       THEN /\ collection' = Some(VectorParams(cc[1].vector_size))
            /\ index_points' = {}
            /\ CallEnded(cc[1], "returned")
       ELSE /\ UNCHANGED <<collection, index_points>>
            /\ CallEnded(cc[1], "raised")
    /\ UNCHANGED <<uuid_count, upserts, del, last_call>>

\* A backend call of create_collection raises: "except Exception: raise".
CreateCollectionFails ==
    /\ cc # None
    /\ cc[1].pc \in {"delete_collection", "create_collection"}
    /\ UNCHANGED <<collection, indexVars>>
    /\ CallEnded(cc[1], "raised")

\* A process starts at one of the entry points.
StartProcess(entry) ==
    /\ cc = None
    /\ IF proc = None THEN TRUE
       ELSE proc[1].pc \in {"exited", "failed"} /\ proc[1].n < MaxProcesses
    /\ proc' = Some([entry |-> entry,
                     n |-> IF proc = None THEN 1 ELSE proc[1].n + 1,
                     pc |-> CASE entry = "main" -> "startup"
                              [] entry = "load_textbook_content" -> "loading"
                              [] OTHER -> "serving",
                     vector_service |-> (entry # "vercel_api"),
                     ensured |-> FALSE,
                     issued |-> {}])
    /\ UNCHANGED <<collection, cc, cc_log, indexVars>>

\* lifespan: create_collection(vector_size=1024, force_recreate=False).
LifespanStartup ==
    /\ proc # None
    /\ proc[1].pc = "startup"
    /\ cc = None
    /\ Len(cc_log) < MaxCreateCalls
    /\ GetCollections(StartupVectorSize, FALSE, "lifespan")

\* lifespan could not call create_collection (pool, tables or VectorService
\* failed before it): the startup raises.
LifespanFails ==
    /\ proc # None
    /\ proc[1].pc = "startup"
    /\ cc = None
    /\ proc' = Some([proc[1] EXCEPT !.pc = "failed"])
    /\ UNCHANGED <<collection, cc, cc_log, indexVars>>

Issued(op) == [op |-> op, ensured |-> proc[1].ensured]

\* A chat request is served: get_rag_service needs the global vector service,
\* and answer_question issues a search.
ServeRequest ==
    /\ proc # None
    /\ proc[1].pc = "serving"
    /\ proc' = IF proc[1].vector_service
               THEN Some([proc[1] EXCEPT !.issued = @ \cup {Issued("search")}])
               ELSE Some([proc[1] EXCEPT !.issued = @ \cup {[op |-> "RuntimeError", ensured |-> FALSE]}])
    /\ UNCHANGED <<collection, cc, cc_log, indexVars>>

\* load_sample_content: upsert_documents(documents, embeddings); an error of
\* the backend (no collection, or vectors of another size) is logged.
LoaderUpsert ==
    /\ proc # None
    /\ proc[1].pc = "loading"
    /\ proc' = Some([proc[1] EXCEPT !.pc = "exited",
                                    !.issued = @ \cup {Issued("upsert_documents")}])
    /\ IF collection # None /\ collection[1].size = MockEmbedding.size
       THEN /\ index_points' = Upserted(index_points,
                                        {StoredPoint(PointIds(uuid_count, 1).lo, MockEmbedding.size)})
            /\ uuid_count' = uuid_count + 1
       ELSE UNCHANGED <<index_points, uuid_count>>
    /\ UNCHANGED <<collection, cc, cc_log, upserts, del, last_call>>

\* The server stops.
StopProcess ==
    /\ proc # None
    /\ proc[1].pc = "serving"
    /\ cc = None
    /\ proc' = Some([proc[1] EXCEPT !.pc = "exited"])
    /\ UNCHANGED <<collection, cc, cc_log, indexVars>>

NextStartup ==
    \/ \E vector_size \in VectorSizes, force_recreate \in BOOLEAN :
          CreateCollectionCalled(vector_size, force_recreate)
          /\ UNCHANGED <<ragVars, chatVars, poolVars, cohereVars>>
    \/ DeleteCollection /\ UNCHANGED <<ragVars, chatVars, poolVars, cohereVars>>
    \/ CreateCollection /\ UNCHANGED <<ragVars, chatVars, poolVars, cohereVars>>
    \/ CreateCollectionFails /\ UNCHANGED <<ragVars, chatVars, poolVars, cohereVars>>
    \/ \E entry \in EntryPoints : StartProcess(entry) /\ UNCHANGED <<ragVars, chatVars, poolVars, cohereVars>>
    \/ LifespanStartup /\ UNCHANGED <<ragVars, chatVars, poolVars, cohereVars>>
    \/ LifespanFails /\ UNCHANGED <<ragVars, chatVars, poolVars, cohereVars>>
    \/ ServeRequest /\ UNCHANGED <<ragVars, chatVars, poolVars, cohereVars>>
    \/ LoaderUpsert /\ UNCHANGED <<ragVars, chatVars, poolVars, cohereVars>>
    \/ StopProcess /\ UNCHANGED <<ragVars, chatVars, poolVars, cohereVars>>

SpecStartup == InitStartup /\ [][NextStartup]_vars

\* ---------------------------------------------------------------------------
\* Properties of create_collection and of the entry points
\* ---------------------------------------------------------------------------

\* A new empty collection of the given dimension.
FreshCollection(vector_size) == [collection |-> Some(VectorParams(vector_size)), points |-> {}]

ReturnedCalls == { i \in 1..Len(cc_log) : cc_log[i].outcome = "returned" }

\* C21: create_collection is idempotent. A call that returns leaves an
\* existing collection and its content as they were when force_recreate is
\* false, leaves a new empty collection of the given dimension when
\* force_recreate is true or no collection existed, and a second call with
\* force_recreate false made in the state the first one left leaves that state.
C21_CreateCollectionIdempotent ==
    /\ \A i \in ReturnedCalls :
          LET e == cc_log[i]
          IN  IF e.before.collection # None /\ ~e.force_recreate
              THEN e.after = e.before
              ELSE e.after = FreshCollection(e.vector_size)
    /\ \A i \in ReturnedCalls, j \in ReturnedCalls :
          ( /\ j = i + 1
            /\ ~cc_log[i].force_recreate
            /\ ~cc_log[j].force_recreate
            /\ cc_log[j].before = cc_log[i].after )
          => cc_log[j].after = cc_log[i].after

\* Two calls with force_recreate false returned one after the other on a
\* collection that holds points.
C21_Witness ==
    /\ Len(cc_log) = 2
    /\ ReturnedCalls = {1, 2}
    /\ ~cc_log[1].force_recreate /\ ~cc_log[2].force_recreate
    /\ cc_log[1].before.points # {}
    /\ cc_log[2].before = cc_log[1].after
    /\ cc_log[2].after = cc_log[1].before

\* C22 (as stated): create_collection never returns leaving a collection whose
\* dimension differs from the requested one.
C22_DimensionMismatchFailsFast ==
    \A i \in ReturnedCalls :
        /\ cc_log[i].after.collection # None
        /\ cc_log[i].after.collection[1].size = cc_log[i].vector_size

\* C23 (as stated): every search or upsert_documents call a process issues is
\* issued after create_collection has completed in that process.
C23_EnsuredBeforeUse ==
    proc # None =>
        \A call \in proc[1].issued :
            call.op \in {"search", "upsert_documents"} => call.ensured

\* ---------------------------------------------------------------------------
\* CohereService called on its own (api/services/cohere_service.py)
\* ---------------------------------------------------------------------------

\* Length of the query that is longer than the 100 characters the failure
\* reply quotes.
LongQueryLen == 101

LongQuery == [i \in 1..LongQueryLen |-> "x"]

\* Texts and queries handed to the service.
CohereTexts == Questions \cup {LongQuery}

\* Context lists: none, one chunk, exactly three, and one more than three.
ContextLists ==
    { <<>>,
      << <<"chunk one">> >>,
      << <<"chunk one">>, <<"chunk two">>, <<"chunk three">> >>,
      << <<"chunk one">>, <<"chunk two">>, <<"chunk three">>, <<"chunk four">> >> }

CohereClients == {"none", "live"}

InitCohere ==
    /\ RagIdle
    /\ client = "none"
    /\ ChatUnused
    /\ IndexUnused
    /\ StartupUnused
    /\ PoolUnused
    /\ CohereUnused

\* generate_embedding(text) is entered.
EmbeddingCall(cl, text) ==
    /\ co = None
    /\ co' = Some([method |-> "generate_embedding", client |-> cl, text |-> text,
                   pc |-> "called", outcome |-> None])

\* generate_chat_response(query, context_chunks, conversation_history,
\* selected_text) is entered.
ChatCall(cl, query, context_chunks, history, selection) ==
    /\ co = None
    /\ co' = Some([method |-> "generate_chat_response", client |-> cl, query |-> query,
                   context_chunks |-> context_chunks, conversation_history |-> history,
                   selected_text |-> selection, pc |-> "called", outcome |-> None])

\* generate_embedding runs to its return statement.
EmbeddingEnds ==
    /\ co # None
    /\ co[1].method = "generate_embedding"
    /\ co[1].pc = "called"
    /\ \E o \in generate_embedding(co[1].client, co[1].text) :
          co' = Some([co[1] EXCEPT !.pc = "returned", !.outcome = Some(o)])

\* generate_chat_response runs to its return statement.
ChatEnds ==
    /\ co # None
    /\ co[1].method = "generate_chat_response"
    /\ co[1].pc = "called"
    /\ \E o \in generate_chat_response(co[1].client, co[1].query, co[1].context_chunks,
                                       co[1].conversation_history, co[1].selected_text) :
          co' = Some([co[1] EXCEPT !.pc = "returned", !.outcome = Some(o)])

\* The caller has taken the value.
CohereDone ==
    /\ co # None
    /\ co[1].pc = "returned"
    /\ co' = None

NextCohere ==
    \/ /\ \E cl \in CohereClients, text \in CohereTexts : EmbeddingCall(cl, text)
       /\ UNCHANGED <<ragVars, chatVars, indexVars, startupVars, poolVars>>
    \/ /\ \E cl \in CohereClients, query \in CohereTexts, context_chunks \in ContextLists,
             history \in Histories, selection \in SelectedTexts :
             ChatCall(cl, query, context_chunks, history, selection)
       /\ UNCHANGED <<ragVars, chatVars, indexVars, startupVars, poolVars>>
    \/ EmbeddingEnds /\ UNCHANGED <<ragVars, chatVars, indexVars, startupVars, poolVars>>
    \/ ChatEnds /\ UNCHANGED <<ragVars, chatVars, indexVars, startupVars, poolVars>>
    \/ CohereDone /\ UNCHANGED <<ragVars, chatVars, indexVars, startupVars, poolVars>>

SpecCohere == InitCohere /\ [][NextCohere]_vars

\* ---------------------------------------------------------------------------
\* Properties of CohereService
\* ---------------------------------------------------------------------------

Ended(method) == co # None /\ co[1].method = method /\ co[1].pc = "returned"

\* The call had no client, or its remote call raised.
Degraded == co[1].client = "none" \/ co[1].outcome[1].caught # <<>>

\* C24: generate_embedding never fails outward. A call either is running or
\* has returned; with no credential configured, and whenever the remote embed
\* call raised, the value returned is the vector of 1024 components that are
\* all 0.1.
C24_EmbeddingNeverFails ==
    /\ (co # None /\ co[1].method = "generate_embedding") =>
          co[1].pc \in {"called", "returned"}
    /\ (Ended("generate_embedding") /\ Degraded) =>
          /\ co[1].outcome[1].value = [size |-> 1024, component |-> "0.1"]
          /\ co[1].outcome[1].value.size = StartupVectorSize
    /\ Ended("generate_embedding") => co[1].outcome[1].value.size = 1024

\* A live client whose embed call raised, and the mock vector came back.
C24_Witness ==
    /\ Ended("generate_embedding")
    /\ co[1].client = "live"
    /\ co[1].outcome[1].caught = <<RemoteErrorText>>
    /\ co[1].outcome[1].value = MockEmbedding

\* The values generate_chat_response can return for a degraded call with the
\* given arguments.
DegradedReplies(cl, query, context_chunks, history, selection) ==
    { o.value : o \in { x \in generate_chat_response(cl, query, context_chunks,
                                                     history, selection) :
                            cl = "none" \/ x.caught # <<>> } }

NumCallers == 3
Callers == 1..NumCallers

\* The functions through which the pool is asked for.
PoolEntries == {"get_db_pool", "get_connection"}

IdleCaller == [pc |-> "idle", via |-> "none", got |-> None]

InitPool ==
    /\ RagIdle
    /\ client = "none"
    /\ ChatUnused
    /\ IndexUnused
    /\ StartupUnused
    /\ CohereUnused
    /\ pool = None
    /\ pools_created = 0
    /\ pool_calls = [c \in Callers |-> IdleCaller]

\* get_db_pool up to its first await: "if _pool is None" is read, and either
\* the pool is returned or asyncpg.create_pool is awaited.
PoolEnter(c, via) ==
    /\ pool_calls[c].pc = "idle"
    /\ pool_calls' = [pool_calls EXCEPT ![c] =
                         IF pool = None
                         THEN [pc |-> "creating", via |-> via, got |-> None]
                         ELSE [pc |-> "returned", via |-> via, got |-> pool]]
    /\ UNCHANGED <<pool, pools_created>>

\* DATABASE_URL is not set: RuntimeError.
PoolNotConfigured(c, via) ==
    /\ pool_calls[c].pc = "idle"
    /\ pool = None
    /\ pool_calls' = [pool_calls EXCEPT ![c] = [pc |-> "raised", via |-> via, got |-> None]]
    /\ UNCHANGED <<pool, pools_created>>

\* asyncpg.create_pool completes: the new pool is assigned to _pool and
\* returned.
PoolCreated(c) ==
    /\ pool_calls[c].pc = "creating"
    /\ pools_created' = pools_created + 1
    /\ pool' = Some(pools_created + 1)
    /\ pool_calls' = [pool_calls EXCEPT ![c] = [@ EXCEPT !.pc = "returned",
                                                         !.got = Some(pools_created + 1)]]

\* asyncpg.create_pool raises: nothing is assigned.
PoolCreateFails(c) ==
    /\ pool_calls[c].pc = "creating"
    /\ pool_calls' = [pool_calls EXCEPT ![c] = [@ EXCEPT !.pc = "raised"]]
    /\ UNCHANGED <<pool, pools_created>>

\* close_db_pool at shutdown, when no call is in flight: the pool is closed and
\* _pool is None again.
PoolClose ==
    /\ pool # None
    /\ \A c \in Callers : pool_calls[c].pc # "creating"
    /\ pool' = None
    /\ pools_created' = 0
    /\ pool_calls' = [c \in Callers |-> IdleCaller]

NextPool ==
    \/ /\ \E c \in Callers, via \in PoolEntries : PoolEnter(c, via)
       /\ UNCHANGED <<ragVars, chatVars, indexVars, startupVars, cohereVars>>
    \/ /\ \E c \in Callers, via \in PoolEntries : PoolNotConfigured(c, via)
       /\ UNCHANGED <<ragVars, chatVars, indexVars, startupVars, cohereVars>>
    \/ /\ \E c \in Callers : PoolCreated(c)
       /\ UNCHANGED <<ragVars, chatVars, indexVars, startupVars, cohereVars>>
    \/ /\ \E c \in Callers : PoolCreateFails(c)
       /\ UNCHANGED <<ragVars, chatVars, indexVars, startupVars, cohereVars>>
    \/ PoolClose /\ UNCHANGED <<ragVars, chatVars, indexVars, startupVars, cohereVars>>

SpecPool == InitPool /\ [][NextPool]_vars

\* C29 (as stated): between closes at most one pool is created, and every
\* caller that was handed a pool was handed the same one.
C29_SinglePool ==
    /\ pools_created <= 1
    /\ \A c1, c2 \in Callers :
          (pool_calls[c1].pc = "returned" /\ pool_calls[c2].pc = "returned") =>
              pool_calls[c1].got = pool_calls[c2].got

\* ---------------------------------------------------------------------------
\* What the selected text and the conversation history can influence
\* ---------------------------------------------------------------------------

\* The request built from a query and the first chunks of a context list.
RequestFor(query, context_chunks) ==
    [message |-> ChatMessage(query, Take(context_chunks, ContextCap)),
     preamble |-> ChatPreamble]

\* The dicts answer_question can return once the search step has ended with
\* the given results, for a call made without selected text and history.
AnswersWithout(cl, q, results) ==
    IF NoResults(results)
    THEN { NoContextResult }
    ELSE { IF o.value = None
           THEN CatchAllResult(LenNoneErrorText)
           ELSE NormalResult(o.value, ExtractSources(results), ExtractContext(results)) :
               o \in generate_chat_response(cl, q, GenerationContext(q, ExtractContext(results)),
                                            None, None) }
         \cup { CatchAllResult(ChatErrorText) }

====
